---- MODULE Spec2Model ----
(***************************************************************************)
(* Model of the System Integration Program: the IntegrationEngine          *)
(* (service registry + message router, src/integration_engine.py) and the  *)
(* SelfHealing monitor (src/self_healing.py) that operates on the engine's *)
(* registry; and the QuantumAICore task processor                          *)
(* (src/quantum_ai_core.py), which shares no state with the other two and  *)
(* runs under a specification of its own, SpecCore.                        *)
(*                                                                         *)
(* A Python dict is modelled as a sequence of [name, rec] entries in       *)
(* insertion order.  Wall-clock fields (timestamp, registered_at, uptime)  *)
(* are left out: no operation reads them back.                             *)
(***************************************************************************)
EXTENDS Integers, Sequences, FiniteSets, TLC

\* ------------------------------------------------------------------ bounds
\* total number of entries the three logs (processed_messages, fault_log,
\* repairs) may hold together
MaxLogged == 2
\* number of QuantumAICore.process calls in a run
MaxOps == 3

\* ------------------------------------------------------------------ inputs
Names == {"a", "b"}            \* names that get registered, targeted, looked up
Sources == {"a", "x"}          \* senders; "x" is never registered
Statuses == {"active", "inactive", "maintenance"}
Payloads == {{<<"k", "v">>}}

\* Optional[Dict]: None, or a dict given as a set of key/value pairs
NoneConfig == [some |-> FALSE, val |-> {}]
SomeConfig(m) == [some |-> TRUE, val |-> m]
ServiceInputs ==
    { [type |-> "quantum", endpoint |-> "", config |-> NoneConfig],
      [type |-> "storage", endpoint |-> "http://s",
       config |-> SomeConfig({<<"k", "v">>})] }

VARIABLES
    registered_services,  \* IntegrationEngine.registered_services
    message_queue,        \* IntegrationEngine.message_queue
    processed_messages,   \* IntegrationEngine.processed_messages
    health_status,        \* SelfHealing.health_status
    fault_log,            \* SelfHealing.fault_log
    repairs,              \* SelfHealing.repairs
    last,                 \* the last call that wrote state: [op, ret], its
                          \* name and what it returned (history)
    send_calls,           \* number of send_message invocations so far (history)
    processing_log,       \* QuantumAICore.processing_log
    total_operations,     \* QuantumAICore.total_operations
    process_calls         \* number of process invocations so far (history)

engine_vars == <<registered_services, message_queue, processed_messages,
                 health_status, fault_log, repairs, last, send_calls>>
core_vars == <<processing_log, total_operations, process_calls>>
vars == <<engine_vars, core_vars>>

\* ------------------------------------------------------------ dict helpers
KeySeq(d) == [i \in 1..Len(d) |-> d[i].name]
KeySet(d) == {d[i].name : i \in 1..Len(d)}
Has(d, k) == k \in KeySet(d)
IndexOf(d, k) ==
    CHOOSE i \in 1..Len(d) : d[i].name = k /\ \A j \in 1..(i-1) : d[j].name # k
Get(d, k) == d[IndexOf(d, k)].rec

\* (mutant) d[k] = v that always inserts at the end
SetItemAppend(d, k, v) == Append(d, [name |-> k, rec |-> v])

\* d[k] = v : overwrite in place when the key exists, else insert at the end
SetItem(d, k, v) ==
    IF Has(d, k) THEN [d EXCEPT ![IndexOf(d, k)].rec = v]
    ELSE Append(d, [name |-> k, rec |-> v])

\* `config or {}`
ConfigOrEmpty(config) == IF config.some /\ config.val # {} THEN config.val ELSE {}

\* --------------------------------------------------------- IntegrationEngine
NewService(service_type, endpoint, config) ==
    [type |-> service_type,
     endpoint |-> endpoint,
     config |-> ConfigOrEmpty(config),
     status |-> "active",
     message_count |-> 0]

register_service(services, name, service_type, endpoint, config) ==
    SetItem(services, name, NewService(service_type, endpoint, config))

PendingMessage(source, target, payload) ==
    [source |-> source, target |-> target, payload |-> payload,
     status |-> "pending"]

ErrorMessage(m) ==
    [source |-> m.source, target |-> m.target, payload |-> m.payload,
     status |-> "error",
     error |-> <<"Service", m.target, "not registered">>]

\* (mutant) the status is never resolved
DeliveredMessageStaysPending(m) == m

DeliveredMessage(m) == [m EXCEPT !.status = "delivered"]

\* (mutant) a delivery is counted twice
IncrementCountTwice(services, target) ==
    [services EXCEPT ![IndexOf(services, target)].rec.message_count = @ + 2]

\* (mutant) -= 1 for += 1
DecrementCount(services, target) ==
    [services EXCEPT ![IndexOf(services, target)].rec.message_count = @ - 1]

IncrementCount(services, target) ==
    [services EXCEPT ![IndexOf(services, target)].rec.message_count = @ + 1]

\* The engine state send_message works on, as one record
Engine(services, queue, processed, calls) ==
    [services |-> services, queue |-> queue, processed |-> processed,
     calls |-> calls]

\* (mutant) the source is validated as well
send_message_checks_source(e, source, target, payload) ==
    LET message == PendingMessage(source, target, payload)
        ok == Has(e.services, target) /\ Has(e.services, source)
        final == IF ~ok THEN ErrorMessage(message)
                 ELSE DeliveredMessage(message)
        services2 == IF ~ok THEN e.services
                     ELSE IncrementCount(e.services, target)
    IN  [engine |-> Engine(services2, Append(e.queue, final),
                           Append(e.processed, final), e.calls + 1),
         message |-> final]

\* (mutant) an error message is returned before it is logged
send_message_drops_errors(e, source, target, payload) ==
    LET message == PendingMessage(source, target, payload)
    IN  IF ~Has(e.services, target)
        THEN [engine |-> Engine(e.services, e.queue, e.processed, e.calls + 1),
              message |-> ErrorMessage(message)]
        ELSE [engine |-> Engine(IncrementCount(e.services, target),
                                Append(e.queue, DeliveredMessage(message)),
                                Append(e.processed, DeliveredMessage(message)),
                                e.calls + 1),
              message |-> DeliveredMessage(message)]

\* (mutant) an unknown target gets a record of its own
send_message_autoregisters(e, source, target, payload) ==
    LET message == PendingMessage(source, target, payload)
        final == IF ~Has(e.services, target) THEN ErrorMessage(message)
                 ELSE DeliveredMessage(message)
        services2 == IF ~Has(e.services, target)
                     THEN Append(e.services,
                                 [name |-> target,
                                  rec |-> [type |-> "unknown", endpoint |-> "",
                                           config |-> {}, status |-> "active",
                                           message_count |-> 0]])
                     ELSE IncrementCount(e.services, target)
    IN  [engine |-> Engine(services2, Append(e.queue, final),
                           Append(e.processed, final), e.calls + 1),
         message |-> final]

\* (mutant) the newest message is put at the head of the log
send_message_prepends(e, source, target, payload) ==
    LET message == PendingMessage(source, target, payload)
        final == IF ~Has(e.services, target) THEN ErrorMessage(message)
                 ELSE DeliveredMessage(message)
        services2 == IF ~Has(e.services, target) THEN e.services
                     ELSE IncrementCount(e.services, target)
    IN  [engine |-> Engine(services2, Append(e.queue, final),
                           <<final>> \o e.processed, e.calls + 1),
         message |-> final]

send_message(e, source, target, payload) ==
    LET message == PendingMessage(source, target, payload)
        final == IF ~Has(e.services, target) THEN ErrorMessage(message)
                 ELSE DeliveredMessage(message)
        services2 == IF ~Has(e.services, target) THEN e.services
                     ELSE IncrementCount(e.services, target)
    IN  [engine |-> Engine(services2,
                           Append(e.queue, final),
                           Append(e.processed, final),
                           e.calls + 1),
         message |-> final]

\* (mutant) the loop of broadcast without the test on the source
RECURSIVE BroadcastLoopAll(_, _, _, _, _, _)
BroadcastLoopAll(e, results, keys, i, source, payload) ==
    IF i > Len(keys) THEN [engine |-> e, results |-> results]
    ELSE LET r == send_message(e, source, keys[i], payload)
         IN  BroadcastLoopAll(r.engine, Append(results, r.message),
                              keys, i + 1, source, payload)

\* The loop of broadcast, from position i of the key sequence taken at entry
RECURSIVE BroadcastLoop(_, _, _, _, _, _)
BroadcastLoop(e, results, keys, i, source, payload) ==
    IF i > Len(keys) THEN [engine |-> e, results |-> results]
    ELSE IF keys[i] # source
         THEN LET r == send_message(e, source, keys[i], payload)
              IN  BroadcastLoop(r.engine, Append(results, r.message),
                                keys, i + 1, source, payload)
         ELSE BroadcastLoop(e, results, keys, i + 1, source, payload)

broadcast(e, source, payload) ==
    BroadcastLoop(e, <<>>, KeySeq(e.services), 1, source, payload)

get_service_status(services, name) ==
    IF Has(services, name) THEN [found |-> TRUE, rec |-> Get(services, name)]
    ELSE [found |-> FALSE]

PendingCount(queue) ==
    Len(SelectSeq(queue, LAMBDA m : m.status = "pending"))

ServiceSummary(services) ==
    [i \in 1..Len(services) |->
        [name |-> services[i].name,
         type |-> services[i].rec.type,
         status |-> services[i].rec.status,
         messages |-> services[i].rec.message_count]]

\* (mutant) only the delivered messages are counted
get_integration_report_delivered(services, queue, processed) ==
    [services_registered |-> Len(services),
     messages_processed |->
         Len(SelectSeq(processed, LAMBDA m : m.status = "delivered")),
     pending_messages |-> PendingCount(queue),
     services |-> ServiceSummary(services)]

get_integration_report(services, queue, processed) ==
    [services_registered |-> Len(services),
     messages_processed |-> Len(processed),
     pending_messages |-> PendingCount(queue),
     services |-> ServiceSummary(services)]

\* --------------------------------------------------------------- SelfHealing
\* (mutant) == 'inactive' for != 'active'
IsInactive(entry) == entry.rec.status = "inactive"

NotActive(entry) == entry.rec.status # "active"

Issues(services) ==
    LET bad == SelectSeq(services, NotActive)
    IN  [i \in 1..Len(bad) |->
            [service |-> bad[i].name, issue |-> "inactive",
             severity |-> "warning"]]

\* (mutant) `if issues is not None` for `if issues`
CheckedStatusNotNone(issues) == "degraded"

CheckedStatus(issues) == IF issues # <<>> THEN "degraded" ELSE "healthy"

\* (mutant) the check marks the services it reports
check_health_marks(services, flog) ==
    LET issues == Issues(services)
        marked == [i \in 1..Len(services) |->
                      IF NotActive(services[i])
                      THEN [services[i] EXCEPT !.rec.status = "degraded"]
                      ELSE services[i]]
    IN  [services |-> marked,
         health_status |-> CheckedStatus(issues),
         fault_log |-> IF issues # <<>> THEN flog \o issues ELSE flog,
         report |-> [status |-> CheckedStatus(issues),
                     issues |-> issues,
                     services_checked |-> Len(services)]]

\* (mutant) an issue already in the fault log is not logged again
check_health_dedups(services, flog) ==
    LET issues == Issues(services)
        known(issue) == \E i \in 1..Len(flog) : flog[i] = issue
        fresh == SelectSeq(issues, LAMBDA issue : ~known(issue))
    IN  [services |-> services,
         health_status |-> CheckedStatus(issues),
         fault_log |-> IF issues # <<>> THEN flog \o fresh ELSE flog,
         report |-> [status |-> CheckedStatus(issues),
                     issues |-> issues,
                     services_checked |-> Len(services)]]

\* services: the dict passed in, as the call leaves it
check_health(services, flog) ==
    LET issues == Issues(services)
    IN  [services |-> services,
         health_status |-> CheckedStatus(issues),
         fault_log |-> IF issues # <<>> THEN flog \o issues ELSE flog,
         report |-> [status |-> CheckedStatus(issues),
                     issues |-> issues,
                     services_checked |-> Len(services)]]

\* (mutant) only the services marked inactive are reactivated
ReactivateInactiveOnly(entry) ==
    IF entry.rec.status = "inactive"
    THEN [entry EXCEPT !.rec.status = "active"] ELSE entry

\* (mutant) reactivation writes a fresh record state, counter included
ReactivateResetsCount(entry) ==
    IF NotActive(entry)
    THEN [entry EXCEPT !.rec.status = "active", !.rec.message_count = 0]
    ELSE entry

Reactivate(entry) ==
    IF NotActive(entry) THEN [entry EXCEPT !.rec.status = "active"] ELSE entry

\* (mutant) an action is recorded for every service of the sweep
RepairListAll(services) ==
    [i \in 1..Len(services) |->
        [service |-> services[i].name, action |-> "reactivated"]]

RepairList(services) ==
    LET bad == SelectSeq(services, NotActive)
    IN  [i \in 1..Len(bad) |->
            [service |-> bad[i].name, action |-> "reactivated"]]

\* (mutant) the sweep leaves the health status to the next check
auto_repair_keeps_status(services, hstatus, rlog) ==
    LET services2 == [i \in 1..Len(services) |-> Reactivate(services[i])]
        new == RepairList(services)
    IN  [services |-> services2,
         repairs |-> rlog \o new,
         health_status |-> hstatus,
         result |-> new]

\* (mutant) a sweep that had something to repair reports the system degraded
auto_repair_marks_degraded(services, hstatus, rlog) ==
    LET services2 == [i \in 1..Len(services) |-> Reactivate(services[i])]
        new == RepairList(services)
    IN  [services |-> services2,
         repairs |-> rlog \o new,
         health_status |-> IF new # <<>> THEN "degraded" ELSE "healthy",
         result |-> new]

auto_repair(services, hstatus, rlog) ==
    LET services2 == [i \in 1..Len(services) |-> Reactivate(services[i])]
        new == RepairList(services)
    IN  [services |-> services2,
         repairs |-> rlog \o new,
         health_status |-> IF SelectSeq(services2, NotActive) = <<>>
                           THEN "healthy" ELSE hstatus,
         result |-> new]

get_report(hstatus, flog, rlog) ==
    [status |-> hstatus,
     faults_detected |-> Len(flog),
     repairs_executed |-> Len(rlog)]

\* A host writing the status field of a record (ServiceRegistry.setStatus):
\* a no-op when the name is unknown
set_status(services, name, status) ==
    IF Has(services, name)
    THEN [services EXCEPT ![IndexOf(services, name)].rec.status = status]
    ELSE services

\* -------------------------------------------------------------- state machine
None == "None"
Call(op, result) == [op |-> op, ret |-> result]

Logged(processed, flog, rlog) == Len(processed) + Len(flog) + Len(rlog)

CurrentEngine ==
    Engine(registered_services, message_queue, processed_messages, send_calls)

Init ==
    /\ registered_services = <<>>
    /\ message_queue = <<>>
    /\ processed_messages = <<>>
    /\ health_status = "healthy"
    /\ fault_log = <<>>
    /\ repairs = <<>>
    /\ last = Call("init", None)
    /\ send_calls = 0
    /\ processing_log = <<>>
    /\ total_operations = 0
    /\ process_calls = 0

RegisterServiceOf(name, inp) ==
    /\ registered_services' =
          register_service(registered_services, name, inp.type,
                           inp.endpoint, inp.config)
    /\ last' = Call("register_service", None)
    /\ UNCHANGED <<message_queue, processed_messages, health_status,
                   fault_log, repairs, send_calls>>
    /\ UNCHANGED core_vars

RegisterService ==
    \E name \in Names, inp \in ServiceInputs : RegisterServiceOf(name, inp)

SendMessageOf(source, target, payload) ==
    /\ Logged(processed_messages, fault_log, repairs) < MaxLogged
    /\ LET r == send_message(CurrentEngine, source, target, payload)
       IN  /\ registered_services' = r.engine.services
           /\ message_queue' = r.engine.queue
           /\ processed_messages' = r.engine.processed
           /\ send_calls' = r.engine.calls
           /\ last' = Call("send_message", r.message)
    /\ UNCHANGED <<health_status, fault_log, repairs>>
    /\ UNCHANGED core_vars

SendMessage ==
    \E source \in Sources, target \in Names, payload \in Payloads :
        SendMessageOf(source, target, payload)

BroadcastOf(source, payload) ==
    /\ LET r == broadcast(CurrentEngine, source, payload)
       IN  /\ Logged(r.engine.processed, fault_log, repairs) <= MaxLogged
           /\ registered_services' = r.engine.services
           /\ message_queue' = r.engine.queue
           /\ processed_messages' = r.engine.processed
           /\ send_calls' = r.engine.calls
           /\ last' = Call("broadcast", r.results)
    /\ UNCHANGED <<health_status, fault_log, repairs>>
    /\ UNCHANGED core_vars

Broadcast ==
    \E source \in Sources, payload \in Payloads : BroadcastOf(source, payload)

\* The two reads return get_service_status(registered_services, name) and
\* get_integration_report(...) of the current state and write nothing
GetServiceStatusOf(name) ==
    /\ get_service_status(registered_services, name).found
          = Has(registered_services, name)
    /\ UNCHANGED vars

GetServiceStatus ==
    \E name \in Names : GetServiceStatusOf(name)

GetIntegrationReport ==
    /\ get_integration_report(registered_services, message_queue,
                              processed_messages).services_registered
          = Len(registered_services)
    /\ UNCHANGED vars

CheckHealth ==
    LET r == check_health(registered_services, fault_log)
    IN  /\ Logged(processed_messages, r.fault_log, repairs) <= MaxLogged
        /\ registered_services' = r.services
        /\ health_status' = r.health_status
        /\ fault_log' = r.fault_log
        /\ last' = Call("check_health", r.report)
        /\ UNCHANGED <<message_queue, processed_messages, repairs,
                       send_calls>>
        /\ UNCHANGED core_vars

AutoRepair ==
    LET r == auto_repair(registered_services, health_status, repairs)
    IN  /\ Logged(processed_messages, fault_log, r.repairs) <= MaxLogged
        /\ registered_services' = r.services
        /\ repairs' = r.repairs
        /\ health_status' = r.health_status
        /\ last' = Call("auto_repair", r.result)
        /\ UNCHANGED <<message_queue, processed_messages, fault_log,
                       send_calls>>
        /\ UNCHANGED core_vars

SetStatusOf(name, status) ==
    /\ registered_services' = set_status(registered_services, name, status)
    /\ last' = Call("set_status", None)
    /\ UNCHANGED <<message_queue, processed_messages, health_status,
                   fault_log, repairs, send_calls>>
    /\ UNCHANGED core_vars

SetStatus ==
    \E name \in Names, status \in Statuses : SetStatusOf(name, status)

Next ==
    \/ RegisterService
    \/ SendMessage
    \/ Broadcast
    \/ GetServiceStatus
    \/ GetIntegrationReport
    \/ CheckHealth
    \/ AutoRepair
    \/ SetStatus

Spec == Init /\ [][Next]_vars

\* ------------------------------------------------------------- QuantumAICore
\* A task is a dict; a key it may lack is an option [some, val].  The task's
\* 'data' and 'parameters' are dicts and 'iterations' an integer, as the
\* signatures of the helpers say.  Floats are left out of the outputs except
\* best_score, which is drawn from Scores or is an infinity.
DefaultIterations == 100
AbsentStr == [some |-> FALSE, val |-> ""]
AbsentInt == [some |-> FALSE, val |-> 0]
Given(v) == [some |-> TRUE, val |-> v]
DictGet(opt, default) == IF opt.some THEN opt.val ELSE default

TaskTypeInputs ==
    { AbsentStr, Given("quantum_optimize"), Given("ml_inference"),
      Given("hybrid_compute"), Given("health_check"), Given("bogus") }
ObjectiveInputs == { AbsentStr, Given("maximize") }
IterationInputs == { AbsentInt, Given(0) }
Scores == {-1, 1}             \* what the annealing loop's draws may leave

Task(type, objective, iterations) ==
    [type |-> type, objective |-> objective, iterations |-> iterations]

\* best_score after the loop: the start value when no candidate is drawn
BestScore(objective, iterations, draw) ==
    IF iterations > 0 /\ objective \in {"minimize", "maximize"}
    THEN [kind |-> "number", val |-> draw]
    ELSE [kind |-> IF objective = "minimize" THEN "inf" ELSE "-inf",
          val |-> 0]

quantum_optimize(task, draw) ==
    LET objective == DictGet(task.objective, "minimize")
        iterations == DictGet(task.iterations, DefaultIterations)
    IN  [best_score |-> BestScore(objective, iterations, draw),
         iterations |-> iterations,
         method |-> "quantum_annealing_sim"]

ml_inference(task) ==
    [model |-> "default", prediction |-> "inference_placeholder"]

hybrid_compute(task, draw) ==
    [quantum |-> quantum_optimize(task, draw),
     classical |-> ml_inference(task)]

health_check(total) ==
    [version |-> "2.0.6", status |-> "healthy", total_operations |-> total,
     quantum_backend |-> "simulator", models_loaded |-> 0]

TaskResult(task_type, status, field, value) ==
    [task_type |-> task_type, status |-> status, detail |-> field,
     value |-> <<value>>]

\* (mutant) an unknown task type returns before the bookkeeping
process_returns_early(log, total, task, draw) ==
    LET task_type == DictGet(task.type, "unknown")
        known == {"quantum_optimize", "ml_inference", "hybrid_compute",
                  "health_check"}
        result ==
            IF task_type = "quantum_optimize"
            THEN TaskResult(task_type, "completed", "output",
                            quantum_optimize(task, draw))
            ELSE IF task_type = "ml_inference"
            THEN TaskResult(task_type, "completed", "output",
                            ml_inference(task))
            ELSE IF task_type = "hybrid_compute"
            THEN TaskResult(task_type, "completed", "output",
                            hybrid_compute(task, draw))
            ELSE IF task_type = "health_check"
            THEN TaskResult(task_type, "completed", "output",
                            health_check(total))
            ELSE TaskResult(task_type, "error", "error",
                            <<"Unknown task type:", task_type>>)
    IN  IF task_type \in known
        THEN [log |-> Append(log, result), total |-> total + 1,
              result |-> result]
        ELSE [log |-> log, total |-> total, result |-> result]

\* process(task) on a core with this log and counter
process(log, total, task, draw) ==
    LET task_type == DictGet(task.type, "unknown")
        result ==
            IF task_type = "quantum_optimize"
            THEN TaskResult(task_type, "completed", "output",
                            quantum_optimize(task, draw))
            ELSE IF task_type = "ml_inference"
            THEN TaskResult(task_type, "completed", "output",
                            ml_inference(task))
            ELSE IF task_type = "hybrid_compute"
            THEN TaskResult(task_type, "completed", "output",
                            hybrid_compute(task, draw))
            ELSE IF task_type = "health_check"
            THEN TaskResult(task_type, "completed", "output",
                            health_check(total))
            ELSE TaskResult(task_type, "error", "error",
                            <<"Unknown task type:", task_type>>)
    IN  [log |-> Append(log, result), total |-> total + 1, result |-> result]

ProcessOf(task, draw) ==
    /\ process_calls < MaxOps
    /\ LET r == process(processing_log, total_operations, task, draw)
       IN  /\ processing_log' = r.log
           /\ total_operations' = r.total
    /\ process_calls' = process_calls + 1
    /\ UNCHANGED engine_vars

Process ==
    \E type \in TaskTypeInputs, objective \in ObjectiveInputs,
       iterations \in IterationInputs, draw \in Scores :
        ProcessOf(Task(type, objective, iterations), draw)

NextCore == Process

SpecCore == Init /\ [][NextCore]_vars

\* ------------------------------------------------------------ the properties
CountOf(d, n) == Get(d, n).message_count
StatusOf(d, n) == Get(d, n).status
Registered == KeySet(registered_services)
IsMessage(m) == {"source", "target", "payload", "status"} \subseteq DOMAIN m

\* C1: sendMessage to a registered target returns a delivered message and
\* raises that target's messageCount by exactly 1, whatever the target's
\* status and whether or not the source is registered; every other count and
\* every status stay as they were.
C1_SendToRegistered ==
    [][last'.op = "send_message" =>
       \A source \in Sources, target \in Names, payload \in Payloads :
        (SendMessageOf(source, target, payload) /\ target \in Registered) =>
            /\ last'.ret.status = "delivered"
            /\ KeySeq(registered_services') = KeySeq(registered_services)
            /\ CountOf(registered_services', target)
                  = CountOf(registered_services, target) + 1
            /\ \A n \in Registered \ {target} :
                  CountOf(registered_services', n)
                      = CountOf(registered_services, n)
            /\ \A n \in Registered :
                  StatusOf(registered_services', n)
                      = StatusOf(registered_services, n)]_vars

\* a delivery from the unregistered sender to a service that is not active
C1_Witness ==
    /\ last.op = "send_message"
    /\ last.ret.status = "delivered"
    /\ last.ret.source \notin Registered
    /\ StatusOf(registered_services, last.ret.target) # "active"
    /\ CountOf(registered_services, last.ret.target) = 1

\* C2: sendMessage to an unregistered target returns a message with status
\* error and an error detail, changes no messageCount and no registered name,
\* and still appends the message to the processed-message log.
C2_SendToUnregistered ==
    [][last'.op = "send_message" =>
       \A source \in Sources, target \in Names, payload \in Payloads :
        (SendMessageOf(source, target, payload) /\ target \notin Registered) =>
            /\ IsMessage(last'.ret)
            /\ last'.ret.status = "error"
            /\ "error" \in DOMAIN last'.ret
            /\ KeySeq(registered_services') = KeySeq(registered_services)
            /\ \A n \in Registered :
                  CountOf(registered_services', n)
                      = CountOf(registered_services, n)
            /\ processed_messages' = Append(processed_messages, last'.ret)]_vars

\* an error message was returned and logged while a service with a count exists
C2_Witness ==
    /\ last.op = "send_message"
    /\ last.ret.status = "error"
    /\ last.ret.target \notin Registered
    /\ Len(processed_messages) = 2
    /\ processed_messages[2] = last.ret
    /\ \E n \in Registered : CountOf(registered_services, n) = 1

\* C3: registering a registered name keeps the number of entries, replaces
\* type/endpoint/config by the new values and sets status active and
\* messageCount 0; registering a new name adds exactly one entry; no other
\* record changes.
GivenConfig(inp) == IF inp.config.some THEN inp.config.val ELSE {}

C3_Register ==
    [][last'.op = "register_service" =>
       \A name \in Names, inp \in ServiceInputs :
        RegisterServiceOf(name, inp) =>
            /\ Len(registered_services') =
                  IF name \in Registered THEN Len(registered_services)
                  ELSE Len(registered_services) + 1
            /\ KeySet(registered_services') = Registered \cup {name}
            /\ Get(registered_services', name) =
                  [type |-> inp.type, endpoint |-> inp.endpoint,
                   config |-> GivenConfig(inp), status |-> "active",
                   message_count |-> 0]
            /\ \A n \in Registered \ {name} :
                  Get(registered_services', n) = Get(registered_services, n)]_vars

\* a re-registration: the name received a message, and its count is 0 again
C3_Witness ==
    /\ last.op = "register_service"
    /\ Len(registered_services) = 2
    /\ \E i \in 1..Len(processed_messages) :
          /\ processed_messages[i].status = "delivered"
          /\ CountOf(registered_services, processed_messages[i].target) = 0
          /\ Get(registered_services, processed_messages[i].target).type
                = "storage"

\* C4: broadcast returns exactly one message per registered name other than
\* the source and none for the source, all delivered; each of those services'
\* messageCount grows by 1 and the source's stays; that is N-1 messages when
\* the source is registered and N when it is not, and the processed-message
\* log grows by the same number.
TargetsOf(results) == {results[i].target : i \in 1..Len(results)}

C4_Broadcast ==
    [][last'.op = "broadcast" =>
       \A source \in Sources, payload \in Payloads :
        BroadcastOf(source, payload) =>
            LET results == last'.ret
                N == Cardinality(Registered)
            IN  /\ TargetsOf(results) = Registered \ {source}
                /\ Len(results) = Cardinality(Registered \ {source})
                /\ Len(results) = IF source \in Registered THEN N - 1 ELSE N
                /\ \A i \in 1..Len(results) :
                      /\ results[i].status = "delivered"
                      /\ results[i].source = source
                /\ \A n \in Registered \ {source} :
                      CountOf(registered_services', n)
                          = CountOf(registered_services, n) + 1
                /\ source \in Registered =>
                      CountOf(registered_services', source)
                          = CountOf(registered_services, source)
                /\ Len(processed_messages')
                      = Len(processed_messages) + Len(results)]_vars

\* a broadcast from a registered source among two services: one message
C4_Witness ==
    /\ last.op = "broadcast"
    /\ Len(registered_services) = 2
    /\ Len(last.ret) = 1
    /\ last.ret[1].source \in Registered
    /\ CountOf(registered_services, last.ret[1].source) = 0
    /\ CountOf(registered_services, last.ret[1].target) = 1

\* C5: checkHealth with no non-active service returns healthy with no issue
\* and sets the system status healthy; with some non-active service it returns
\* degraded with exactly one issue (inactive, warning) per non-active service,
\* none for an active one, and sets the system status degraded.
NonActive(d) == {n \in KeySet(d) : StatusOf(d, n) # "active"}

C5_CheckHealth ==
    [][(last'.op = "check_health" /\ CheckHealth) =>
        LET bad == NonActive(registered_services)
            rep == last'.ret
        IN  IF bad = {}
            THEN /\ rep.status = "healthy"
                 /\ rep.issues = <<>>
                 /\ health_status' = "healthy"
            ELSE /\ rep.status = "degraded"
                 /\ Len(rep.issues) = Cardinality(bad)
                 /\ {rep.issues[i].service : i \in 1..Len(rep.issues)} = bad
                 /\ \A i \in 1..Len(rep.issues) :
                       /\ rep.issues[i].issue = "inactive"
                       /\ rep.issues[i].severity = "warning"
                 /\ health_status' = "degraded"]_vars

\* a degraded check over two non-active services, one of them not "inactive"
C5_Witness ==
    /\ last.op = "check_health"
    /\ last.ret.status = "degraded"
    /\ Len(last.ret.issues) = 2
    /\ \E n \in Registered : StatusOf(registered_services, n) = "maintenance"

\* C6: after checkHealth has returned degraded, autoRepair makes every
\* registered service active, and a checkHealth right after the repair
\* returns healthy with no issues.
C6_RepairThenHealthy ==
    [][/\ (last.op = "check_health" /\ last.ret.status = "degraded"
              /\ last'.op = "auto_repair" /\ AutoRepair) =>
            /\ NonActive(registered_services') = {}
            /\ check_health(registered_services', fault_log').report.status
                  = "healthy"
       /\ (last.op = "auto_repair" /\ last'.op = "check_health"
              /\ CheckHealth) =>
            /\ last'.ret.status = "healthy"
            /\ last'.ret.issues = <<>>
            /\ health_status' = "healthy"]_vars

\* a healthy check after a fault was logged and repaired
C6_Witness ==
    /\ last.op = "check_health"
    /\ last.ret.status = "healthy"
    /\ last.ret.services_checked > 0
    /\ fault_log # <<>>
    /\ Len(repairs) = Len(fault_log)

\* C7: the Router report's servicesRegistered is the number of distinct
\* registered names, messagesProcessed the number of sendMessage invocations
\* so far, and its per-service summary gives each service's current type,
\* status and messageCount.
ReportConsistent(rep) ==
    /\ rep.services_registered = Cardinality(Registered)
    /\ rep.messages_processed = send_calls
    /\ {rep.services[i].name : i \in 1..Len(rep.services)} = Registered
    /\ \A i \in 1..Len(rep.services) :
          LET e == rep.services[i]
          IN  /\ e.type = Get(registered_services, e.name).type
              /\ e.status = StatusOf(registered_services, e.name)
              /\ e.messages = CountOf(registered_services, e.name)

CurrentReport ==
    get_integration_report(registered_services, message_queue,
                           processed_messages)

C7_Report == ReportConsistent(CurrentReport)

\* the report after a broadcast to two services and a status change
C7_Witness ==
    /\ last.op = "set_status"
    /\ CurrentReport.services_registered = 2
    /\ CurrentReport.messages_processed = 2
    /\ send_calls = 2
    /\ \E i \in 1..2 : CurrentReport.services[i].status # "active"
    /\ \A i \in 1..2 : CurrentReport.services[i].messages = 1

\* C8: no message of the processed-message log or of the queue is pending:
\* each is delivered or error, the error detail is present exactly on the
\* error ones, and the report's pending count is 0.
Resolved(m) ==
    /\ m.status \in {"delivered", "error"}
    /\ ("error" \in DOMAIN m) <=> (m.status = "error")

C8_NoPending ==
    /\ \A i \in 1..Len(processed_messages) : Resolved(processed_messages[i])
    /\ \A i \in 1..Len(message_queue) : Resolved(message_queue[i])
    /\ get_integration_report(registered_services, message_queue,
                              processed_messages).pending_messages = 0

\* a log holding a delivered and an error message
C8_Witness ==
    /\ Len(processed_messages) = 2
    /\ processed_messages[1].status = "error"
    /\ processed_messages[2].status = "delivered"
    /\ message_queue = processed_messages

\* C9 as stated: the messageCount of a registered name never decreases from
\* one state to the next.
C9_Monotonic ==
    [][\A n \in Registered \cap KeySet(registered_services') :
          CountOf(registered_services', n)
              >= CountOf(registered_services, n)]_vars

\* C9 amended: the messageCount of a registered name decreases only when that
\* name is registered again, which sets it to 0; sendMessage, broadcast,
\* checkHealth, autoRepair and the reads never decrease it.
C9_MonotonicButRegister ==
    [][\A n \in Registered \cap KeySet(registered_services') :
          CountOf(registered_services', n) < CountOf(registered_services, n)
              => /\ \E inp \in ServiceInputs : RegisterServiceOf(n, inp)
                 /\ CountOf(registered_services', n) = 0]_vars

\* a name registered again after a delivery to it: its count is 0 again
C9_Witness ==
    /\ last.op = "register_service"
    /\ \E i \in 1..Len(processed_messages) :
          /\ processed_messages[i].status = "delivered"
          /\ CountOf(registered_services, processed_messages[i].target) = 0

\* C10: the set of registered names changes only through register: no other
\* operation adds or removes a record, and the registry holds at most one
\* record per name.
C10_OnlyRegisterAdds ==
    /\ [](Cardinality(Registered) = Len(registered_services))
    /\ [][last'.op # "register_service" =>
            /\ KeySet(registered_services') = Registered
            /\ Len(registered_services') = Len(registered_services)]_vars

\* an error message to an unregistered target from the unregistered sender
\* left the registry without either name
C10_Witness ==
    /\ last.op = "send_message"
    /\ last.ret.status = "error"
    /\ last.ret.target \notin Registered
    /\ last.ret.source \notin Registered
    /\ Len(registered_services) = 1

\* C11: checkHealth leaves every service record, the repair log, the
\* processed-message log and the message queue as they were; it changes only
\* the system health status and the fault log.
C11_CheckHealthReadOnly ==
    [][(last'.op = "check_health" /\ CheckHealth) =>
            /\ registered_services' = registered_services
            /\ repairs' = repairs
            /\ processed_messages' = processed_messages
            /\ message_queue' = message_queue]_vars

\* a degraded check over a registry with a counted, non-active service
C11_Witness ==
    /\ last.op = "check_health"
    /\ last.ret.status = "degraded"
    /\ fault_log # <<>>
    /\ processed_messages # <<>>
    /\ \E n \in Registered :
          /\ StatusOf(registered_services, n) = "inactive"
          /\ CountOf(registered_services, n) = 1

\* C12: autoRepair returns exactly one RepairAction "reactivated" per service
\* that was not active and none for an active one, appends exactly those to
\* the repair log, and ends with every service active and the system status
\* healthy, also when the status was degraded.
C12_AutoRepair ==
    [][(last'.op = "auto_repair" /\ AutoRepair) =>
        LET bad == NonActive(registered_services)
            res == last'.ret
        IN  /\ Len(res) = Cardinality(bad)
            /\ {res[i].service : i \in 1..Len(res)} = bad
            /\ \A i \in 1..Len(res) : res[i].action = "reactivated"
            /\ repairs' = repairs \o res
            /\ NonActive(registered_services') = {}
            /\ KeySeq(registered_services') = KeySeq(registered_services)
            /\ health_status' = "healthy"]_vars

\* a repair of one of two services after a degraded check, no check since
C12_Witness ==
    /\ last.op = "auto_repair"
    /\ Len(last.ret) = 1
    /\ Len(registered_services) = 2
    /\ fault_log # <<>>
    /\ repairs = last.ret
    /\ health_status = "healthy"

\* C13 as stated: in every reachable state the system health status is
\* degraded only if at least one registered service is not active.
C13_DegradedOnlyIfInactive ==
    health_status = "degraded" => NonActive(registered_services) # {}

\* C13 amended: right after a checkHealth or an autoRepair the system health
\* status is degraded only if at least one registered service is not active;
\* between those calls the status is the one the last of them left.
C13_DegradedAfterCheck ==
    /\ (last.op \in {"check_health", "auto_repair"}
            /\ health_status = "degraded")
          => NonActive(registered_services) # {}
    /\ health_status = "degraded" => fault_log # <<>>

\* a degraded check of two services, one active and one under maintenance
C13_Witness ==
    /\ last.op = "check_health"
    /\ health_status = "degraded"
    /\ Len(registered_services) = 2
    /\ Cardinality(NonActive(registered_services)) = 1
    /\ \E n \in Registered : StatusOf(registered_services, n) = "maintenance"

\* C14: the processed-message log is append-only: every operation keeps its
\* entries and their order, only sendMessage (directly or through broadcast)
\* appends, one entry per invocation; an error message stays an error when
\* its target is registered later.
IsPrefix(s, t) == Len(s) <= Len(t) /\ \A i \in 1..Len(s) : t[i] = s[i]

C14_AppendOnlyLog ==
    [][/\ IsPrefix(processed_messages, processed_messages')
       /\ Len(processed_messages') - Len(processed_messages)
             = send_calls' - send_calls
       /\ processed_messages' # processed_messages
             => last'.op \in {"send_message", "broadcast"}
       /\ last'.op = "send_message"
             => processed_messages' = Append(processed_messages, last'.ret)
       /\ last'.op = "broadcast"
             => processed_messages' = processed_messages \o last'.ret]_vars

\* the target of a logged error message was registered afterwards: the entry
\* is still the error, and nothing was delivered to the new record
C14_Witness ==
    /\ last.op = "register_service"
    /\ Len(processed_messages) = 2
    /\ processed_messages[1].status = "error"
    /\ processed_messages[1].target \in Registered
    /\ CountOf(registered_services, processed_messages[1].target) = 0
    /\ processed_messages[2].status = "delivered"

\* C15: the system health status is always healthy or degraded and starts
\* healthy; it becomes degraded only inside checkHealth, autoRepair never
\* makes it degraded, and register, sendMessage and broadcast leave the health
\* status, the fault log and the repair log as they were.
C15_HealthStateMachine ==
    /\ health_status = "healthy"
    /\ [](health_status \in {"healthy", "degraded"})
    /\ [][/\ (health_status # "degraded" /\ health_status' = "degraded")
                => last'.op = "check_health"
          /\ last'.op = "auto_repair"
                => (health_status' = "degraded" => health_status = "degraded")
          /\ last'.op \in {"register_service", "send_message", "broadcast"}
                => /\ health_status' = health_status
                   /\ fault_log' = fault_log
                   /\ repairs' = repairs]_vars

\* a message was routed while the system was degraded
C15_Witness ==
    /\ last.op = "send_message"
    /\ health_status = "degraded"
    /\ fault_log # <<>>
    /\ NonActive(registered_services) # {}

\* C16: a service's messageCount is incremented only by a successful delivery
\* to that service: checkHealth, autoRepair (also when it reactivates the
\* service), the reads, and a sendMessage that ends in error or goes to
\* another service leave it as it was.
DeliveredTo(log, from, n) ==
    Cardinality({i \in (from + 1)..Len(log) :
                    log[i].status = "delivered" /\ log[i].target = n})

C16_CountOnlyOnDelivery ==
    [][(\/ registered_services' # registered_services
        \/ last'.op \in {"send_message", "broadcast"}) =>
       \A n \in Registered \cap KeySet(registered_services') :
        LET before == CountOf(registered_services, n)
            after == CountOf(registered_services', n)
        IN  /\ after > before
                => last'.op \in {"send_message", "broadcast"}
            /\ last'.op \in {"send_message", "broadcast"}
                => after = before + DeliveredTo(processed_messages',
                                                Len(processed_messages), n)
            /\ last'.op \in {"check_health", "auto_repair"}
                => after = before]_vars

\* autoRepair reactivated a service that had received a message: the count
\* is still 1
C16_Witness ==
    /\ last.op = "auto_repair"
    /\ Len(last.ret) = 1
    /\ CountOf(registered_services, last.ret[1].service) = 1
    /\ DeliveredTo(processed_messages, 0, last.ret[1].service) = 1

\* C17: the HealthMonitor report's fault count and repair count start at 0 and
\* never decrease: each checkHealth adds the number of issues it returned (a
\* service still inactive at the next check is counted again), each
\* autoRepair adds the number of RepairActions it returned, and no other
\* operation changes them.
HealthReport == get_report(health_status, fault_log, repairs)

C17_CumulativeCounts ==
    /\ HealthReport.faults_detected = 0
    /\ HealthReport.repairs_executed = 0
    /\ [][/\ HealthReport'.faults_detected - HealthReport.faults_detected
                = IF last'.op = "check_health" THEN Len(last'.ret.issues)
                  ELSE 0
          /\ HealthReport'.repairs_executed - HealthReport.repairs_executed
                = IF last'.op = "auto_repair" THEN Len(last'.ret) ELSE 0
          /\ HealthReport'.faults_detected >= HealthReport.faults_detected
          /\ HealthReport'.repairs_executed >= HealthReport.repairs_executed
         ]_vars

\* two successive checks found the same service inactive: it counts twice
C17_Witness ==
    /\ last.op = "check_health"
    /\ HealthReport.faults_detected = 2
    /\ HealthReport.repairs_executed = 0
    /\ HealthReport.status = "degraded"
    /\ fault_log[1] = fault_log[2]

\* C19: the sum of messageCount over the registered services is at most the
\* number of delivered messages in the processed-message log, and the two are
\* equal as long as no name is registered again after it received a message
\* (they start equal, and every step other than such a registration keeps
\* them equal).
RECURSIVE SumCountsFrom(_, _)
SumCountsFrom(d, i) ==
    IF i > Len(d) THEN 0 ELSE d[i].rec.message_count + SumCountsFrom(d, i + 1)

SumCounts(d) == SumCountsFrom(d, 1)
DeliveredCount(log) == Len(SelectSeq(log, LAMBDA m : m.status = "delivered"))

C19_CountsVersusDelivered ==
    /\ SumCounts(registered_services) = DeliveredCount(processed_messages)
    /\ [](SumCounts(registered_services) <= DeliveredCount(processed_messages))
    /\ [][(/\ SumCounts(registered_services)
                 = DeliveredCount(processed_messages)
           /\ ~(/\ last'.op = "register_service"
                /\ \E n \in Registered :
                      /\ CountOf(registered_services, n) > 0
                      /\ CountOf(registered_services', n) = 0))
            => SumCounts(registered_services')
                  = DeliveredCount(processed_messages')]_vars

\* a name was registered again between two deliveries to it: the counts sum
\* to 1 with 2 delivered messages in the log
C19_Witness ==
    /\ last.op = "send_message"
    /\ SumCounts(registered_services) = 1
    /\ DeliveredCount(processed_messages) = 2
    /\ processed_messages[1].target = processed_messages[2].target

\* C20: autoRepair is idempotent: an autoRepair right after an autoRepair
\* returns an empty list and leaves every service record, the repair log and
\* the system health status as the first call left them.
C20_AutoRepairIdempotent ==
    [][(last.op = "auto_repair" /\ last'.op = "auto_repair" /\ AutoRepair) =>
            /\ last'.ret = <<>>
            /\ registered_services' = registered_services
            /\ repairs' = repairs
            /\ health_status' = health_status
            /\ fault_log' = fault_log]_vars
    /\ [](last.op = "auto_repair" =>
            LET again == auto_repair(registered_services, health_status,
                                     repairs)
            IN  /\ again.result = <<>>
                /\ again.services = registered_services
                /\ again.repairs = repairs
                /\ again.health_status = health_status)

\* the second of two sweeps: nothing returned, the first sweep's action is
\* the whole repair log
C20_Witness ==
    /\ last.op = "auto_repair"
    /\ last.ret = <<>>
    /\ Len(repairs) = 1
    /\ Len(registered_services) = 2
    /\ fault_log = <<>>
    /\ processed_messages = <<>>

\* C18: every process call, whatever the task type (the four known ones, an
\* unknown one, or none), appends exactly one result record to the processing
\* log and adds 1 to total_operations, so total_operations is always the
\* length of the log; an unknown or missing type gives status error, a known
\* one status completed.
KnownTaskTypes ==
    {"quantum_optimize", "ml_inference", "hybrid_compute", "health_check"}

====
